---------------------------- MODULE Spec2Model ----------------------------
(***************************************************************************)
(* deep-search-mcp (src/src/index.ts): the page-fetch pipeline             *)
(* (fetchWithRetry, fetchUrl, fetchAllUrls), the report assembler          *)
(* (formatResponse) and the two tool handlers (deep_search,                *)
(* deep_search_news) as a state machine.                                   *)
(*                                                                         *)
(* One fetchUrl call per URL is a coroutine; its suspension points are the *)
(* awaits of the source: fetch() (pc "fetching"), the backoff setTimeout   *)
(* (pc "backoff") and response.text() (pc "reading").  Everything between  *)
(* two awaits runs in one step, as on the single JavaScript thread.        *)
(*                                                                         *)
(* Strings that the code only copies are TLA+ strings.  An error message   *)
(* is the sequence of its words, so that message.includes("timeout") is    *)
(* computed.  A page text is run-length encoded (a sequence of runs        *)
(* [c, n]: n times the character class c), so that length, substring and   *)
(* split are computed on texts as long as the program's limits.            *)
(***************************************************************************)
EXTENDS Integers, Sequences, FiniteSets, TLC

VARIABLES
    apiKey,         \* SERPER_API_KEY, read once at startup (line 9)
    hPc,            \* the tool handler: "idle", "searching", "fetching", "responded"
    request,        \* the arguments of the tool call being served
    searchQuery,    \* the handler's query for the provider (lines 349-357, 424)
    searchResults,  \* what googleSearch returned
    reply,          \* what the handler returned to the caller
    searchCalls,    \* history: POSTs sent to the search provider for this request
    searchStatus,   \* history: the status the search provider answered with (0: none)
    urls,           \* fetchAllUrls: its argument urls
    concurrency,    \* fetchAllUrls: its argument concurrency
    faPc,           \* fetchAllUrls: "idle", "awaiting" (Promise.allSettled), "returned"
    i,              \* fetchAllUrls: the loop variable i (0-based, as in the source)
    results,        \* fetchAllUrls: the array results (1-based here)
    pc,             \* per URL, fetchUrl: "idle", "fetching", "backoff", "reading", "settled"
    attempt,        \* per URL, fetchWithRetry: the loop variable attempt
    lastError,      \* per URL, fetchWithRetry: the variable lastError
    settled,        \* per URL: the value its fetchUrl promise was fulfilled with
    lastResp,       \* history, per URL: how its latest fetch attempt ended
    traced,         \* history: the URLs whose attempts are recorded in hist and waits
    hist,           \* history, per traced URL: how each attempt ended, in order
    waits,          \* history, per traced URL: the backoff delays armed, in order
    extracted,      \* history, per URL: the text the extractors returned (line 210)
    statuses,       \* environment: the statuses target servers answer with
    pages,          \* environment: the pages target servers serve
    args            \* environment: the values callers give each tool argument

vars == << apiKey, hPc, request, searchQuery, searchResults, reply, searchCalls,
           searchStatus, urls, concurrency, faPc, i, results, pc, attempt, lastError,
           settled, lastResp, traced, hist, waits, extracted, statuses, pages,
           args >>

serverVars == << apiKey, hPc, request, searchQuery, searchResults, reply, searchCalls,
                searchStatus >>
envVars == << statuses, pages, traced, args >>

----------------------------------------------------------------------------
(* Bounds of the model. *)

\* The longest URL list given to fetchAllUrls in Spec.
MaxUrls == 4
\* The largest concurrency given to fetchAllUrls in Spec.
MaxConcurrency == 2
\* The most results the search provider returns in SpecServer.
MaxResults == 2

----------------------------------------------------------------------------
(* Program constants. *)

\* fetchWithRetry's default maxRetries.
MaxRetries == 3
\* fetchWithRetry's default baseDelay, in ms.
BaseDelay == 1000
\* fetchUrl's default maxLength.
MaxLength == 100000
\* The concurrency both handlers pass to fetchAllUrls.
HandlerConcurrency == 5

----------------------------------------------------------------------------
(* Optional values (a field that may be undefined). *)

NoMessage == [def |-> FALSE, v |-> << >>]
NoNumber == [def |-> FALSE, v |-> 0]
NoString == [def |-> FALSE, v |-> ""]
NoText == [def |-> FALSE, v |-> << >>]
\* An optional string argument the caller left out.
Undefined == [def |-> FALSE, v |-> << >>]
Some(x) == [def |-> TRUE, v |-> x]

\* The k-th URL of a list: URLs are distinct here.
UrlName(k) == "https://site" \o ToString(k) \o ".example/"

----------------------------------------------------------------------------
(* Error messages, as sequences of words. *)

\* new Error(`HTTP ${response.status}`)
HttpMessage(status) == << "HTTP", ToString(status) >>
\* The DOMException of AbortSignal.timeout(15000).
TimeoutMessage == << "The", "operation", "was", "aborted", "due", "to", "timeout" >>
\* The TypeError of a failed fetch (connection refused, reset, DNS).
NetworkMessage == << "fetch", "failed" >>
\* The TypeError of a body stream that ends early.
TerminatedMessage == << "terminated" >>

\* Mutant of Includes: the message is compared with the word as a whole.
IncludesWhole(message, word) == message = << word >>

\* message.includes(word)
Includes(message, word) == \E k \in 1..Len(message) : message[k] = word

\* Mutant of Ok: the status is not looked at.
OkUnchecked(status) == TRUE

\* Mutant of Ok: of the 2xx statuses only 200 counts.
OkOnly200(status) == status = 200

\* response.ok
Ok(status) == status >= 200 /\ status <= 299

\* The condition of line 171.
ClientError(status) == status >= 400 /\ status < 500 /\ status # 429

\* Math.pow(2, attempt)
RECURSIVE Pow2(_)
Pow2(n) == IF n = 0 THEN 1 ELSE 2 * Pow2(n - 1)

\* Mutant of BackoffDelay: the same delay before every retry.
BackoffDelayConstant(a) == BaseDelay

\* The delay of line 187.
BackoffDelay(a) == BaseDelay * Pow2(a)

----------------------------------------------------------------------------
(* Texts, run-length encoded.  A run [c, n] is n times the character class  *)
(* c: "w" a non-blank character, " " a blank, "\n" a line break.  The run   *)
(* [c |-> MarkerText, n] is the first n characters of that literal.         *)

MarkerText == "[Content truncated...]"
\* The number of characters of MarkerText.
MarkerTextLen == 22
\* "\n\n[Content truncated...]" (lines 217 and 287)
Marker == << [c |-> "\n", n |-> 2], [c |-> MarkerText, n |-> MarkerTextLen] >>

Run(c, n) == [c |-> c, n |-> n]

\* text.length
RECURSIVE TextLength(_)
TextLength(text) ==
    IF text = << >> THEN 0 ELSE Head(text).n + TextLength(Tail(text))

\* text.substring(0, k)
RECURSIVE Substring0(_, _)
Substring0(text, k) ==
    IF k <= 0 \/ text = << >> THEN << >>
    ELSE IF Head(text).n <= k
         THEN << Head(text) >> \o Substring0(Tail(text), k - Head(text).n)
         ELSE << Run(Head(text).c, k) >>

\* a + b
Concat(a, b) ==
    IF a = << >> THEN b
    ELSE IF b = << >> THEN a
    ELSE IF a[Len(a)].c = b[1].c /\ b[1].c # MarkerText
         THEN SubSeq(a, 1, Len(a) - 1) \o << Run(b[1].c, a[Len(a)].n + b[1].n) >> \o Tail(b)
         ELSE a \o b

IsBlank(c) == c \in {" ", "\n"}

\* text.split(/\s+/).length: one more than the number of maximal runs of
\* blanks.  The texts it is applied to (line 213) hold no marker yet.
WordCount(text) ==
    1 + Cardinality({k \in 1..Len(text) :
                        IsBlank(text[k].c) /\ (k = 1 \/ ~IsBlank(text[k - 1].c))})

\* Mutant of Truncate: a text of exactly limit characters is cut too.
TruncateFromLimit(text, limit) ==
    IF TextLength(text) >= limit THEN Concat(Substring0(text, limit), Marker) ELSE text

\* The cut of lines 216-218 and of lines 285-288.
Truncate(text, limit) ==
    IF TextLength(text) > limit THEN Concat(Substring0(text, limit), Marker) ELSE text

----------------------------------------------------------------------------
(* fetchUrl's two results (lines 220 and 223). *)

FetchUrlSuccess(url, page) ==
    [url |-> url, title |-> page.title, content |-> Truncate(page.text, MaxLength),
     success |-> TRUE, error |-> NoMessage, wordCount |-> Some(WordCount(page.text))]

FetchUrlFailure(url, message) ==
    [url |-> url, title |-> "", content |-> << >>, success |-> FALSE,
     error |-> Some(message), wordCount |-> NoNumber]

\* The placeholder of lines 243-249.
PromiseRejected(url) ==
    [url |-> url, title |-> "", content |-> << >>, success |-> FALSE,
     error |-> Some(<< "Promise", "rejected" >>), wordCount |-> NoNumber]

Fulfilled(value) == [status |-> "fulfilled", value |-> value]
Pending == [status |-> "pending", value |-> FetchUrlFailure("", << >>)]

\* How an attempt ended (history).
NoResp == [kind |-> "none", status |-> 0, message |-> << >>]
StatusResp(status) == [kind |-> "status", status |-> status, message |-> << >>]
ErrorResp(message) == [kind |-> "error", status |-> 0, message |-> message]
\* The attempt was answered with status and its body could not be read.
BodyErrorResp(status, message) ==
    [kind |-> "body-error", status |-> status, message |-> message]

----------------------------------------------------------------------------
(* fetchWithRetry and fetchUrl, one coroutine per URL (k is 1-based). *)

N == Len(urls)
Indices == 1..N

Record(h, k, x) == IF k \in traced THEN [h EXCEPT ![k] = Append(@, x)] ELSE h

\* Lines 198, 152-164: fetchUrl calls fetchWithRetry, which issues attempt 0.
StartFetchUrl(ks, f) == [k \in Indices |-> IF k \in ks THEN "fetching" ELSE f[k]]

\* fetchWithRetry is left, by return or by throw: its locals are gone.
LeaveFetchWithRetry(k) ==
    /\ attempt' = [attempt EXCEPT ![k] = 0]
    /\ lastError' = [lastError EXCEPT ![k] = NoMessage]

\* fetchWithRetry throws error, or response.text() does: fetchUrl's catch
\* (lines 221-224) fulfils the promise with a failure.
Fail(k, error) ==
    /\ LeaveFetchWithRetry(k)
    /\ pc' = [pc EXCEPT ![k] = "settled"]
    /\ settled' = [settled EXCEPT ![k] = Fulfilled(FetchUrlFailure(urls[k], error))]

\* Mutant of AfterFailedAttempt: the last attempt is followed by a wait too.
AfterFailedAttemptWaits(k, error) ==
    IF attempt[k] < MaxRetries
    THEN /\ lastError' = [lastError EXCEPT ![k] = Some(error)]
         /\ pc' = [pc EXCEPT ![k] = "backoff"]
         /\ waits' = Record(waits, k, BackoffDelay(attempt[k]))
         /\ UNCHANGED << attempt, settled >>
    ELSE /\ Fail(k, error)
         /\ UNCHANGED waits

\* Lines 185-192 after an attempt that left error in lastError: wait and go
\* round the loop, or leave the loop and throw lastError.
AfterFailedAttempt(k, error) ==
    IF attempt[k] < MaxRetries - 1
    THEN /\ lastError' = [lastError EXCEPT ![k] = Some(error)]
         /\ pc' = [pc EXCEPT ![k] = "backoff"]
         /\ waits' = Record(waits, k, BackoffDelay(attempt[k]))
         /\ UNCHANGED << attempt, settled >>
    ELSE /\ Fail(k, error)
         /\ UNCHANGED waits

\* The catch of lines 176-183 on error: a timeout is rethrown, another error
\* is followed by the backoff.
Catch(k, error) ==
    IF Includes(error, "timeout")
    THEN /\ Fail(k, error)
         /\ UNCHANGED waits
    ELSE AfterFailedAttempt(k, error)

\* fetch() resolves with a response (lines 166-175).  The throw of line 172
\* is inside the try, so the catch of line 176 catches it as any other error.
FetchResponds(k, status) ==
    /\ pc[k] = "fetching"
    /\ lastResp' = [lastResp EXCEPT ![k] = StatusResp(status)]
    /\ hist' = Record(hist, k, StatusResp(status))
    /\ IF Ok(status)
       THEN /\ LeaveFetchWithRetry(k)
            /\ pc' = [pc EXCEPT ![k] = "reading"]
            /\ UNCHANGED << settled, waits >>
       ELSE IF ClientError(status)
       THEN Catch(k, HttpMessage(status))
       ELSE AfterFailedAttempt(k, HttpMessage(status))
    /\ UNCHANGED << serverVars, envVars, urls, concurrency, faPc, i, results, extracted >>

\* fetch() rejects: the catch of lines 176-183.
FetchRejects(k, message) ==
    /\ pc[k] = "fetching"
    /\ lastResp' = [lastResp EXCEPT ![k] = ErrorResp(message)]
    /\ hist' = Record(hist, k, ErrorResp(message))
    /\ Catch(k, message)
    /\ UNCHANGED << serverVars, envVars, urls, concurrency, faPc, i, results, extracted >>

\* The timer of line 188 fires: attempt++ and the next fetch() is issued.
\* Mutant of BackoffElapses: the loop variable is not incremented.
BackoffElapsesSameAttempt(k) ==
    /\ pc[k] = "backoff"
    /\ pc' = [pc EXCEPT ![k] = "fetching"]
    /\ UNCHANGED << serverVars, envVars, urls, concurrency, faPc, i, results, attempt,
                    lastError, settled, lastResp, hist, waits, extracted >>

BackoffElapses(k) ==
    /\ pc[k] = "backoff"
    /\ attempt' = [attempt EXCEPT ![k] = @ + 1]
    /\ pc' = [pc EXCEPT ![k] = "fetching"]
    /\ UNCHANGED << serverVars, envVars, urls, concurrency, faPc, i, results,
                    lastError, settled, lastResp, hist, waits, extracted >>

\* response.text() resolves (lines 199-220); page is what cheerio and the
\* extractors make of the body: its title and its cleaned text.
BodyArrives(k, page) ==
    /\ pc[k] = "reading"
    /\ pc' = [pc EXCEPT ![k] = "settled"]
    /\ settled' = [settled EXCEPT ![k] = Fulfilled(FetchUrlSuccess(urls[k], page))]
    /\ extracted' = [extracted EXCEPT ![k] = Some(page.text)]
    /\ UNCHANGED << serverVars, envVars, urls, concurrency, faPc, i, results,
                    attempt, lastError, lastResp, hist, waits >>

\* response.text() rejects (line 199, caught at line 221): the body stream
\* ended early, or the attempt's 15 s signal fired while it was read.
BodyFails(k, message) ==
    /\ pc[k] = "reading"
    /\ Fail(k, message)
    /\ lastResp' = [lastResp EXCEPT ![k] = BodyErrorResp(@.status, message)]
    /\ UNCHANGED << serverVars, envVars, urls, concurrency, faPc, i, results,
                    hist, waits, extracted >>

----------------------------------------------------------------------------
(* fetchAllUrls (lines 227-255). *)

Min(a, b) == IF a <= b THEN a ELSE b

\* Mutant of Slice: the end index is taken as inclusive.
SliceInclusive(us, from, to) == SubSeq(us, from + 1, Min(to + 1, Len(us)))

\* urls.slice(from, to), 0-based and end-exclusive as in the source
Slice(us, from, to) == SubSeq(us, from + 1, Min(to, Len(us)))

\* Mutant of Window: every URL from i0 on is started at once.
WindowToEnd(us, c, i0) == {i0 + idx : idx \in 1..(Len(us) - i0)}

\* The tasks of the window that starts at i0: those of batch.map (line 236).
Window(us, c, i0) == {i0 + idx : idx \in 1..Len(Slice(us, i0, i0 + c))}

\* Mutant of GlobalIdx: the offset of the window is forgotten.
GlobalIdxInBatch(i0, idx) == idx

\* globalIdx of line 239 (0-based)
GlobalIdx(i0, idx) == i0 + idx

\* results.length: new Array(urls.length) has that length, and an assignment
\* beyond it would lengthen it.
ResultsLength ==
    IF \E k \in DOMAIN results : k > N
    THEN CHOOSE k \in DOMAIN results : \A j \in DOMAIN results : j <= k
    ELSE N

\* Lines 231-236 up to the first await: the array is allocated and, when
\* there is a URL, the fetches of the first window are issued.
FetchAllUrlsBegin(us, c) ==
    /\ urls' = us
    /\ concurrency' = c
    /\ results' = << >>
    /\ i' = 0
    /\ pc' = [k \in 1..Len(us) |-> IF k \in Window(us, c, 0) THEN "fetching" ELSE "idle"]
    /\ attempt' = [k \in 1..Len(us) |-> 0]
    /\ lastError' = [k \in 1..Len(us) |-> NoMessage]
    /\ settled' = [k \in 1..Len(us) |-> Pending]
    /\ lastResp' = [k \in 1..Len(us) |-> NoResp]
    /\ hist' = [k \in 1..Len(us) |-> << >>]
    /\ waits' = [k \in 1..Len(us) |-> << >>]
    /\ extracted' = [k \in 1..Len(us) |-> NoText]
    /\ faPc' = IF 0 < Len(us) THEN "awaiting" ELSE "returned"

\* fetchAllUrls is called on the URL list and the concurrency of the state.
CallFetchAllUrls ==
    /\ hPc = "idle"
    /\ faPc = "idle"
    /\ FetchAllUrlsBegin(urls, concurrency)
    /\ UNCHANGED << serverVars, envVars >>

\* Mutant of Stored: the outcome is taken from the first window's promises.
StoredFromFirstWindow(i0, idx) == settled[idx + 1].value

\* The value stored for the idx-th (0-based) promise of the batch that
\* starts at i0 (lines 240-250).
Stored(i0, idx) ==
    IF settled[i0 + idx + 1].status = "fulfilled"
    THEN settled[i0 + idx + 1].value
    ELSE PromiseRejected(urls[GlobalIdx(i0, idx) + 1])

\* Promise.allSettled resolves (lines 236-252): the window's outcomes are
\* stored, i advances, and the next window's fetches are issued or the
\* array is returned.
WindowSettles ==
    /\ faPc = "awaiting"
    /\ \A k \in Window(urls, concurrency, i) : pc[k] = "settled"
    /\ LET n == Len(Slice(urls, i, i + concurrency))
           at == {GlobalIdx(i, idx) + 1 : idx \in 0..(n - 1)}
           next == i + concurrency
       IN /\ results' = [k \in DOMAIN results \cup at |->
                            IF k \in at
                            THEN Stored(i, CHOOSE idx \in 0..(n - 1) : GlobalIdx(i, idx) + 1 = k)
                            ELSE results[k]]
          /\ i' = next
          /\ IF next < N
             THEN /\ pc' = StartFetchUrl(Window(urls, concurrency, next), pc)
                  /\ UNCHANGED faPc
             ELSE /\ faPc' = "returned"
                  /\ UNCHANGED pc
    /\ UNCHANGED << serverVars, envVars, urls, concurrency, attempt, lastError,
                    settled, lastResp, hist, waits, extracted >>

----------------------------------------------------------------------------
(* The environment of the fetches. *)

\* How fetch() rejects: the attempt's 15 s deadline, or a network error.
FetchErrors == {TimeoutMessage, NetworkMessage}
\* How response.text() rejects.
BodyErrors == {TimeoutMessage, TerminatedMessage}

Page(title, text) == [title |-> title, text |-> text]

FetchSteps ==
    \/ \E k \in Indices, status \in statuses : FetchResponds(k, status)
    \/ \E k \in Indices, message \in FetchErrors : FetchRejects(k, message)
    \/ \E k \in Indices : BackoffElapses(k)
    \/ \E k \in Indices, page \in pages : BodyArrives(k, page)
    \/ \E k \in Indices, message \in BodyErrors : BodyFails(k, message)
    \/ WindowSettles

NoRequest ==
    [tool |-> "none", query |-> << >>, numResults |-> 0, maxContentPerPage |-> 0,
     searchType |-> "none", include_domains |-> Undefined,
     exclude_domains |-> Undefined]

NoReport ==
    [query |-> << >>, searchType |-> "none", found |-> 0, successCount |-> 0,
     totalWords |-> 0, sections |-> << >>]

\* What a handler returns: content holds one text item, which is an error
\* message, the no-results message or the report.
NoReply == [kind |-> "none", isError |-> FALSE, items |-> 0, message |-> << >>,
            report |-> NoReport]

IdleServer ==
    /\ hPc = "idle"
    /\ request = NoRequest
    /\ searchQuery = << >>
    /\ searchResults = << >>
    /\ reply = NoReply
    /\ searchCalls = 0
    /\ searchStatus = 0

NoCall ==
    /\ faPc = "idle"
    /\ i = 0
    /\ results = << >>
    /\ pc = [k \in Indices |-> "idle"]
    /\ attempt = [k \in Indices |-> 0]
    /\ lastError = [k \in Indices |-> NoMessage]
    /\ settled = [k \in Indices |-> Pending]
    /\ lastResp = [k \in Indices |-> NoResp]
    /\ hist = [k \in Indices |-> << >>]
    /\ waits = [k \in Indices |-> << >>]
    /\ extracted = [k \in Indices |-> NoText]

\* No fetchAllUrls call is in progress: a new request starts from here.
ClearCall ==
    /\ urls' = << >>
    /\ concurrency' = HandlerConcurrency
    /\ faPc' = "idle"
    /\ i' = 0
    /\ results' = << >>
    /\ pc' = << >>
    /\ attempt' = << >>
    /\ lastError' = << >>
    /\ settled' = << >>
    /\ lastResp' = << >>
    /\ hist' = << >>
    /\ waits' = << >>
    /\ extracted' = << >>

----------------------------------------------------------------------------
(* googleSearch (lines 37-81). *)

\* Mutant of KeyMissing: only an undefined key counts as missing.
KeyUndefined(key) == ~key.def

\* !SERPER_API_KEY (line 42): undefined and "" are both falsy.
KeyMissing(key) == ~key.def \/ key.v = ""

ConfigMessage == << "SERPER_API_KEY", "environment", "variable", "is", "required" >>
\* `Serper API error: ${response.status} ${response.statusText}`
ProviderMessage(status) == << "Serper", "API", "error:", ToString(status) >>
\* What fetch() to the provider, or response.json(), rejects with.
SearchErrors == {NetworkMessage}

NoList == [def |-> FALSE, v |-> << >>]
NoData == [organic |-> NoList, news |-> NoList, images |-> NoList]

SearchResult(j, date) ==
    [title |-> "Title " \o ToString(j), link |-> UrlName(j),
     snippet |-> "Snippet " \o ToString(j), position |-> j, date |-> date]

ImageRecord(j) ==
    [title |-> "Image " \o ToString(j),
     imageUrl |-> "https://img.example/" \o ToString(j) \o ".png", link |-> UrlName(j)]

\* The provider's data for n matches of a search of type searchType.
ProviderData(searchType, n) ==
    IF searchType = "images"
    THEN [NoData EXCEPT !.images = Some([j \in 1..n |-> ImageRecord(j)])]
    ELSE IF searchType = "news"
    THEN [NoData EXCEPT !.news = Some([j \in 1..n |-> SearchResult(j, Some("2 days ago"))])]
    ELSE [NoData EXCEPT !.organic = Some([j \in 1..n |-> SearchResult(j, NoString)])]

\* Lines 71-80: the results googleSearch returns for the provider's data.
ParseResults(searchType, data) ==
    IF searchType = "images" /\ data.images.def
    THEN [idx \in 1..Len(data.images.v) |->
             [title |-> data.images.v[idx].title, link |-> data.images.v[idx].link,
              snippet |-> data.images.v[idx].imageUrl, position |-> idx,
              date |-> NoString]]
    ELSE IF searchType = "news"
    THEN (IF data.news.def THEN data.news.v ELSE << >>)
    ELSE (IF data.organic.def THEN data.organic.v ELSE << >>)

----------------------------------------------------------------------------
(* formatResponse (lines 257-299).  The report is kept as its parts: the   *)
(* header's numbers and one section per search result.                     *)

NoBody == [kind |-> "none", content |-> << >>, error |-> << >>, snippet |-> ""]

\* Lines 284-293, for the outcome fetched (fetchedContents[i], which may be
\* undefined) of the search result search.
Body(search, fetched, maxContentPerPage) ==
    IF fetched.def /\ fetched.v.success /\ fetched.v.content # << >>
    THEN [NoBody EXCEPT !.kind = "content",
                        !.content = Truncate(fetched.v.content, maxContentPerPage)]
    ELSE IF fetched.def /\ fetched.v.error.def /\ fetched.v.error.v # << >>
    THEN [NoBody EXCEPT !.kind = "failure", !.error = fetched.v.error.v,
                        !.snippet = search.snippet]
    ELSE NoBody

\* Mutant of At: the outcome after the result's own is taken.
AtNext(fetchedContents, j) ==
    IF j + 1 \in DOMAIN fetchedContents
    THEN [def |-> TRUE, v |-> fetchedContents[j + 1]]
    ELSE [def |-> FALSE, v |-> FetchUrlFailure("", << >>)]

\* fetchedContents[i] of line 275, for section j = i + 1
At(fetchedContents, j) ==
    IF j \in DOMAIN fetchedContents
    THEN [def |-> TRUE, v |-> fetchedContents[j]]
    ELSE [def |-> FALSE, v |-> FetchUrlFailure("", << >>)]

\* Line 265: the sum of c.wordCount || 0 over the first n outcomes.
RECURSIVE TotalWords(_, _)
TotalWords(fetchedContents, n) ==
    IF n = 0 THEN 0
    ELSE TotalWords(fetchedContents, n - 1)
         + (IF n \in DOMAIN fetchedContents /\ fetchedContents[n].wordCount.def
            THEN fetchedContents[n].wordCount.v ELSE 0)

FormatResponse(query, results_, fetchedContents, maxContentPerPage, searchType) ==
    [query |-> query,
     searchType |-> searchType,
     found |-> Len(results_),
     successCount |-> Cardinality({j \in DOMAIN fetchedContents : fetchedContents[j].success}),
     totalWords |-> TotalWords(fetchedContents, Len(results_)),
     sections |-> [j \in 1..Len(results_) |->
                      [number |-> j, title |-> results_[j].title, url |-> results_[j].link,
                       date |-> results_[j].date,
                       body |-> Body(results_[j], At(fetchedContents, j), maxContentPerPage)]]]

----------------------------------------------------------------------------
(* The tool handlers deep_search (lines 339-395) and deep_search_news      *)
(* (lines 417-451).                                                        *)

ErrorPrefix(tool) ==
    IF tool = "deep_search_news"
    THEN << "Error", "performing", "news", "search:" >>
    ELSE << "Error", "performing", "deep", "search:" >>

\* The handlers' catch (lines 386-394, 442-450).
ErrorReply(tool, message) ==
    [NoReply EXCEPT !.kind = "error", !.isError = TRUE, !.items = 1,
                    !.message = ErrorPrefix(tool) \o message]

\* Lines 362-368 and 421-427.
NoResultsReply(tool, query) ==
    [NoReply EXCEPT !.kind = "no-results", !.items = 1,
                    !.message = (IF tool = "deep_search_news"
                                 THEN << "No", "news", "results", "found", "for:", query >>
                                 ELSE << "No", "search", "results", "found", "for:", query >>)]

\* Lines 383-385 and 439-441.
ReportReply(report) ==
    [NoReply EXCEPT !.kind = "report", !.items = 1, !.report = report]

\* Strings the handler takes apart are sequences of characters.

\* Mutant of Trim: the pieces are used as they were split.
TrimNothing(s) == s

RECURSIVE TrimStart(_)
TrimStart(s) ==
    IF s # << >> /\ IsBlank(Head(s)) THEN TrimStart(Tail(s)) ELSE s

RECURSIVE TrimEnd(_)
TrimEnd(s) ==
    IF s # << >> /\ IsBlank(s[Len(s)]) THEN TrimEnd(SubSeq(s, 1, Len(s) - 1)) ELSE s

\* d.trim()
Trim(s) == TrimEnd(TrimStart(s))

\* s.split(","): the pieces between the commas, one piece when s holds none.
RECURSIVE Split(_)
Split(s) ==
    IF \A k \in 1..Len(s) : s[k] # ","
    THEN << s >>
    ELSE LET k == CHOOSE k \in 1..Len(s) : s[k] = "," /\ \A j \in 1..(k - 1) : s[j] # ","
         IN << SubSeq(s, 1, k - 1) >> \o Split(SubSeq(s, k + 1, Len(s)))

\* parts.join(sep)
RECURSIVE Join(_, _)
Join(parts, sep) ==
    IF parts = << >> THEN << >>
    ELSE IF Len(parts) = 1 THEN parts[1]
    ELSE parts[1] \o sep \o Join(Tail(parts), sep)

\* if (arg): an argument that was given and is not the empty string.
Truthy(arg) == arg.def /\ arg.v # << >>

\* arg.split(",").map((d) => d.trim())
Domains(arg) == LET pieces == Split(arg.v) IN [k \in 1..Len(pieces) |-> Trim(pieces[k])]

\* `site:${d}` and `-site:${d}`
Site(d) == << "s", "i", "t", "e", ":" >> \o d
NotSite(d) == << "-", "s", "i", "t", "e", ":" >> \o d

\* The query of lines 349-357.
BuildQuery(query, include_domains, exclude_domains) ==
    LET included ==
            IF Truthy(include_domains)
            THEN LET domains == Domains(include_domains)
                 IN query \o << " " >> \o
                    Join([k \in 1..Len(domains) |-> Site(domains[k])],
                         << " ", "O", "R", " " >>)
            ELSE query
    IN IF Truthy(exclude_domains)
       THEN LET domains == Domains(exclude_domains)
            IN included \o << " " >> \o
               Join([k \in 1..Len(domains) |-> NotSite(domains[k])], << " " >>)
       ELSE included

\* A tool is called: the handler runs up to its first await.  googleSearch
\* throws when the key is missing (lines 42-44); otherwise the POST to the
\* provider is sent (line 53).
CallTool(req, q) ==
    /\ hPc \in {"idle", "responded"}
    /\ request' = req
    /\ searchQuery' = q
    /\ searchResults' = << >>
    /\ searchStatus' = 0
    /\ ClearCall
    /\ IF KeyMissing(apiKey)
       THEN /\ reply' = ErrorReply(req.tool, ConfigMessage)
            /\ searchCalls' = 0
            /\ hPc' = "responded"
       ELSE /\ reply' = NoReply
            /\ searchCalls' = 1
            /\ hPc' = "searching"
    /\ UNCHANGED << apiKey, envVars >>

\* The arguments zod lets through (lines 312-338, 402-416).
Queries == {<< "c", "a", "t", "s" >>}
NumResults == {1, 10}
ContentLimits == {5000, 50000, 100000}
SearchTypes == {"web", "news", "images"}

\* Every value of the numeric and enum arguments, and no domain filter.
PlainArgs ==
    [num_results |-> NumResults, max_content_per_page |-> ContentLimits,
     search_type |-> SearchTypes, domains |-> {Undefined}]

DeepSearch ==
    \E query \in Queries, numResults \in args.num_results,
       maxContentPerPage \in args.max_content_per_page,
       searchType \in args.search_type,
       include_domains \in args.domains, exclude_domains \in args.domains :
        CallTool([tool |-> "deep_search", query |-> query, numResults |-> numResults,
                  maxContentPerPage |-> maxContentPerPage, searchType |-> searchType,
                  include_domains |-> include_domains,
                  exclude_domains |-> exclude_domains],
                 BuildQuery(query, include_domains, exclude_domains))

DeepSearchNews ==
    \E query \in Queries, numResults \in args.num_results,
       maxContentPerPage \in args.max_content_per_page :
        CallTool([tool |-> "deep_search_news", query |-> query, numResults |-> numResults,
                  maxContentPerPage |-> maxContentPerPage, searchType |-> "news",
                  include_domains |-> Undefined, exclude_domains |-> Undefined],
                 query)

\* The provider answers the POST (lines 65-80), and the handler goes on
\* (lines 362-372): an error reply, the no-results reply, or fetchAllUrls
\* is called on the results' links.
SearchResponds(status, data) ==
    /\ hPc = "searching"
    /\ searchStatus' = status
    /\ IF ~Ok(status)
       THEN /\ reply' = ErrorReply(request.tool, ProviderMessage(status))
            /\ hPc' = "responded"
            /\ UNCHANGED << searchResults, urls, concurrency, faPc, i, results, pc,
                            attempt, lastError, settled, lastResp, hist, waits, extracted >>
       ELSE LET found == ParseResults(request.searchType, data)
            IN /\ searchResults' = found
               /\ IF Len(found) = 0
                  THEN /\ reply' = NoResultsReply(request.tool, request.query)
                       /\ hPc' = "responded"
                       /\ UNCHANGED << urls, concurrency, faPc, i, results, pc, attempt,
                                       lastError, settled, lastResp, hist, waits, extracted >>
                  ELSE /\ FetchAllUrlsBegin([j \in 1..Len(found) |-> found[j].link],
                                            HandlerConcurrency)
                       /\ hPc' = "fetching"
                       /\ UNCHANGED reply
    /\ UNCHANGED << apiKey, request, searchQuery, searchCalls, envVars >>

\* fetch() to the provider, or response.json(), rejects: the handler's catch.
SearchRejects(message) ==
    /\ hPc = "searching"
    /\ reply' = ErrorReply(request.tool, message)
    /\ hPc' = "responded"
    /\ UNCHANGED << apiKey, request, searchQuery, searchResults, searchCalls, searchStatus,
                    envVars,
                    urls, concurrency, faPc, i, results, pc, attempt, lastError, settled,
                    lastResp, hist, waits, extracted >>

\* fetchAllUrls has returned: the report is formatted and returned
\* (lines 374-385, 431-441).
HandlerFormats ==
    /\ hPc = "fetching"
    /\ faPc = "returned"
    /\ reply' = ReportReply(FormatResponse(request.query, searchResults, results,
                                           request.maxContentPerPage, request.searchType))
    /\ hPc' = "responded"
    /\ UNCHANGED << apiKey, request, searchQuery, searchResults, searchCalls, searchStatus,
                    envVars,
                    urls, concurrency, faPc, i, results, pc, attempt, lastError, settled,
                    lastResp, hist, waits, extracted >>

\* The statuses the provider answers with.
ProviderStatuses == {200, 403, 500}

ServerSteps ==
    \/ DeepSearch
    \/ DeepSearchNews
    \/ \E status \in ProviderStatuses, n \in 0..Min(request.numResults, MaxResults) :
           SearchResponds(status, ProviderData(request.searchType, n))
    \/ \E status \in ProviderStatuses : SearchResponds(status, NoData)
    \/ \E message \in SearchErrors : SearchRejects(message)
    \/ HandlerFormats

\* fetchAllUrls alone, on any list of up to MaxUrls URLs.
Init ==
    /\ apiKey = Some("key")
    /\ IdleServer
    /\ urls \in {[k \in 1..n |-> UrlName(k)] : n \in 0..MaxUrls}
    /\ concurrency \in 1..MaxConcurrency
    /\ statuses = {200, 404, 503}
    /\ pages = {Page("T", << Run("w", 3) >>)}
    /\ traced = {}
    /\ args = PlainArgs
    /\ NoCall

Next == CallFetchAllUrls \/ FetchSteps

Spec == Init /\ [][Next]_vars


\* One URL, every attempt of which is recorded, against servers that answer
\* with statuses of every class the code tells apart.
InitRetry ==
    /\ apiKey = Some("key")
    /\ IdleServer
    /\ urls = << UrlName(1) >>
    /\ concurrency = HandlerConcurrency
    /\ statuses = {200, 299, 304, 400, 404, 429, 499, 500, 503, 599}
    /\ pages = {Page("T", << Run("w", 3) >>), Page("", << >>)}
    /\ traced = {1}
    /\ args = PlainArgs
    /\ NoCall

SpecRetry == InitRetry /\ [][Next]_vars

\* fetchAllUrls when every attempt ends, every backoff elapses and every
\* body read ends: a step of the fetch pipeline that stays possible is
\* eventually taken.
InitLive ==
    /\ apiKey = Some("key")
    /\ IdleServer
    /\ urls \in {[k \in 1..n |-> UrlName(k)] : n \in 0..MaxUrls}
    /\ concurrency \in 1..MaxConcurrency
    /\ statuses = {200, 503}
    /\ pages = {Page("T", << Run("w", 3) >>)}
    /\ traced = {}
    /\ args = PlainArgs
    /\ NoCall

SpecLive == InitLive /\ [][Next]_vars /\ WF_vars(FetchSteps)

\* The window discipline: 7 URLs with concurrency 5, and every shorter
\* list, against servers that answer 200 or not at all.
InitWindows ==
    /\ apiKey = Some("key")
    /\ IdleServer
    /\ \/ /\ urls \in {[k \in 1..n |-> UrlName(k)] : n \in 0..MaxUrls}
          /\ concurrency \in 1..MaxConcurrency
       \/ /\ urls = [k \in 1..7 |-> UrlName(k)]
          /\ concurrency = HandlerConcurrency
    /\ statuses = {200}
    /\ pages = {Page("T", << Run("w", 3) >>)}
    /\ traced = {}
    /\ args = PlainArgs
    /\ NoCall

SpecWindows == InitWindows /\ [][Next]_vars


\* A text of n non-blank characters.
Letters(n) == << Run("w", n) >>

\* The server, with or without its key, serving one tool call after another.
InitServer ==
    /\ apiKey \in {NoString, Some(""), Some("key")}
    /\ IdleServer
    /\ urls = << >>
    /\ concurrency = HandlerConcurrency
    /\ statuses = {200, 503}
    /\ pages = {Page("T", << Run("w", 2), Run(" ", 1), Run("w", 2) >>),
                Page("", << >>),
                Page("T", Letters(5000)),
                Page("T", Letters(100000)),
                Page("T", Letters(100001))}
    /\ traced = {}
    /\ args = PlainArgs
    /\ NoCall

NextServer == ServerSteps \/ FetchSteps

SpecServer == InitServer /\ [][NextServer]_vars

\* Domain names, and a name with blanks before and after it.
DomainA == << "a", ".", "c", "o", "m" >>
DomainB == << "b", ".", "c", "o", "m" >>
DomainC == << "c", ".", "c", "o", "m" >>
Blanks(n) == [k \in 1..n |-> " "]
Padded(pre, name, post) == [pre |-> pre, name |-> name, post |-> post]

\* The lists of domains callers filter by.
DomainLists ==
    { << Padded(0, DomainA, 0) >>,
      << Padded(0, DomainC, 0) >>,
      << Padded(0, DomainA, 0), Padded(0, DomainB, 0) >>,
      << Padded(1, DomainA, 1), Padded(1, DomainB, 0) >>,
      << Padded(0, DomainC, 0), Padded(2, DomainA, 0) >>,
      << Padded(0, DomainA, 0), Padded(0, DomainB, 1), Padded(1, DomainC, 0) >> }

\* A list as the comma-separated string of lines 330-337.
CommaSeparated(list) ==
    Join([k \in 1..Len(list) |->
              Blanks(list[k].pre) \o list[k].name \o Blanks(list[k].post)],
         << "," >>)

\* The server with its key, called with and without domain filters.
InitQuery ==
    /\ apiKey = Some("key")
    /\ IdleServer
    /\ urls = << >>
    /\ concurrency = HandlerConcurrency
    /\ statuses = {200}
    /\ pages = {Page("T", << Run("w", 3) >>)}
    /\ traced = {}
    /\ args = [num_results |-> {10}, max_content_per_page |-> {50000},
                search_type |-> {"web"},
                domains |-> {Undefined, Some(<< >>)} \cup
                            {Some(CommaSeparated(list)) : list \in DomainLists}]
    /\ NoCall

SpecQuery == InitQuery /\ [][NextServer]_vars

----------------------------------------------------------------------------
(* Properties of the fetch pipeline. *)

\* The window (0-based) of task k.
WindowOf(k) == (k - 1) \div concurrency

FinalStatus2xx(k) ==
    /\ lastResp[k].kind \in {"status", "body-error"}
    /\ lastResp[k].status >= 200
    /\ lastResp[k].status <= 299

\* C1: the array fetchAllUrls returns is as long as urls, holds no hole,
\* and its k-th outcome carries the k-th URL, failed fetches included.
C1_ResultsAligned ==
    faPc = "returned" =>
        /\ ResultsLength = Len(urls)
        /\ DOMAIN results = 1..Len(urls)
        /\ \A k \in 1..Len(urls) : results[k].url = urls[k]

\* C1: a call over two windows has returned, with a failed and a fetched URL.
C1_Witness ==
    /\ faPc = "returned"
    /\ Len(urls) > concurrency
    /\ \E j, k \in DOMAIN results : results[j].success /\ ~results[k].success

\* C2: a URL whose first attempt is answered 4xx other than 429 gets no
\* second attempt and no backoff: it has failed at once with that status.
C2_ClientErrorNotRetried ==
    \A k \in traced \cap Indices :
        (/\ hist[k] # << >>
         /\ hist[k][1].kind = "status"
         /\ hist[k][1].status >= 400
         /\ hist[k][1].status <= 499
         /\ hist[k][1].status # 429)
        => /\ Len(hist[k]) = 1
           /\ waits[k] = << >>
           /\ pc[k] = "settled"
           /\ ~settled[k].value.success
           /\ settled[k].value.error = Some(<< "HTTP", ToString(hist[k][1].status) >>)

Retryable5xx(r) ==
    /\ r.kind = "status"
    /\ (r.status = 429 \/ (r.status >= 500 /\ r.status <= 599))

AllRetryable5xx(h) == h # << >> /\ \A j \in 1..Len(h) : Retryable5xx(h[j])

\* C3: a URL answered 5xx or 429 at every attempt gets exactly 3 attempts,
\* waits 1000 ms then 2000 ms between them (1000 * 2^k before retry k), and
\* fails with the last status.
C3_RetriesExhausted ==
    \A k \in traced \cap Indices :
        AllRetryable5xx(hist[k]) =>
            /\ Len(hist[k]) <= 3
            /\ \A j \in 1..Len(waits[k]) : waits[k][j] = 1000 * 2^(j - 1)
            /\ Len(waits[k]) = IF Len(hist[k]) < 3 THEN Len(hist[k]) ELSE 2
            /\ pc[k] = "settled" <=> Len(hist[k]) = 3
            /\ pc[k] = "settled" =>
                   /\ ~settled[k].value.success
                   /\ settled[k].value.error =
                          Some(<< "HTTP", ToString(hist[k][3].status) >>)

\* C3: 503 three times, and the URL has failed.
C3_Witness ==
    \E k \in traced \cap Indices :
        /\ pc[k] = "settled"
        /\ Len(hist[k]) = 3
        /\ \A j \in 1..3 : hist[k][j] = StatusResp(503)
        /\ waits[k] = << 1000, 2000 >>

IsTimeout(r) == r.kind = "error" /\ r.message = TimeoutMessage

\* C4: an attempt that times out is the URL's last: no wait and no attempt
\* follows, and the outcome is the failure with the timeout message.
C4_TimeoutTerminal ==
    \A k \in traced \cap Indices :
        \A j \in 1..Len(hist[k]) :
            IsTimeout(hist[k][j]) =>
                /\ j = Len(hist[k])
                /\ Len(waits[k]) = j - 1
                /\ pc[k] = "settled"
                /\ ~settled[k].value.success
                /\ settled[k].value.error = Some(TimeoutMessage)

\* C4: the second attempt of a URL timed out.
C4_Witness ==
    \E k \in traced \cap Indices :
        /\ Len(hist[k]) = 2
        /\ IsTimeout(hist[k][2])
        /\ pc[k] = "settled"

\* C5: no fetch of a later window is issued before every URL of the
\* earlier windows has its final outcome.
C5_WindowsInTurn ==
    \A j, k \in Indices :
        (WindowOf(j) < WindowOf(k) /\ pc[k] # "idle") => pc[j] = "settled"

\* C5: 7 URLs with concurrency 5: the first 5 have their outcomes, and the
\* last 2 are in progress, one in an attempt and one in a backoff wait.
C5_Witness ==
    /\ Len(urls) = 7
    /\ concurrency = 5
    /\ pc[6] = "fetching"
    /\ pc[7] = "backoff"
    /\ \E k \in 1..5 : results[k].success

\* C6 as claimed: every URL is attempted, and outcome k is a success
\* exactly when the final attempt of URL k was answered 2xx.
C6_SuccessIffFinal2xx ==
    faPc = "returned" =>
        \A k \in Indices :
            /\ lastResp[k].kind # "none"
            /\ results[k].success <=> FinalStatus2xx(k)

\* C6, amended: every URL is attempted whatever the others do, and outcome
\* k is a success exactly when the final attempt of URL k was answered 2xx
\* and its body was read.
C6_Isolation ==
    faPc = "returned" =>
        \A k \in Indices :
            /\ lastResp[k].kind # "none"
            /\ results[k].url = urls[k]
            /\ results[k].success <=> (FinalStatus2xx(k) /\ lastResp[k].kind = "status")

\* C6: with concurrency 2, URL 1 failed with 404 and URL 2 timed out (first
\* window), and URL 3 of the next window was fetched all the same.
C6_Witness ==
    /\ faPc = "returned"
    /\ Len(urls) >= 3
    /\ concurrency = 2
    /\ results[1].error = Some(<< "HTTP", "404" >>)
    /\ results[2].error = Some(TimeoutMessage)
    /\ results[3].success


----------------------------------------------------------------------------
(* Properties of the handlers and of the report. *)

KeyAbsent == ~apiKey.def \/ apiKey.v = ""

NoFetchIssued == Len(urls) = 0 /\ faPc = "idle" /\ DOMAIN results = {}

C8_MissingKey ==
    KeyAbsent =>
        /\ searchCalls = 0
        /\ searchStatus = 0
        /\ NoFetchIssued
        /\ hPc \in {"idle", "responded"}
        /\ ENABLED DeepSearch
        /\ ENABLED DeepSearchNews
        /\ hPc = "responded" =>
               /\ reply.kind = "error"
               /\ reply.isError
               /\ reply.items = 1
               /\ SubSeq(reply.message, 5, Len(reply.message)) =
                      << "SERPER_API_KEY", "environment", "variable", "is", "required" >>

\* C8: the key is the empty string and a deep_search_news call was refused.
C8_Witness ==
    /\ apiKey = Some("")
    /\ hPc = "responded"
    /\ request.tool = "deep_search_news"
    /\ reply.isError

Reported == hPc = "responded" /\ reply.kind = "report"

\* C9: the section of every result whose fetch failed holds the failure
\* notice, with the fetch's error, and the result's snippet; when all
\* fetches failed the header counts 0 successes and every snippet is there.
C9_FailureNotice ==
    Reported =>
        /\ Len(reply.report.sections) = Len(searchResults)
        /\ \A j \in 1..Len(searchResults) :
               ~results[j].success =>
                   /\ reply.report.sections[j].body.kind = "failure"
                   /\ reply.report.sections[j].body.error = results[j].error.v
                   /\ reply.report.sections[j].body.snippet = searchResults[j].snippet
        /\ (\A j \in 1..Len(searchResults) : ~results[j].success) =>
               /\ reply.report.successCount = 0
               /\ \A j \in 1..Len(searchResults) :
                      reply.report.sections[j].body.snippet = searchResults[j].snippet

\* C9: a report on two results, the first fetched and the second not.
C9_Witness ==
    /\ Reported
    /\ Len(searchResults) = 2
    /\ results[1].success
    /\ ~results[2].success
    /\ reply.report.sections[2].body.snippet = "Snippet 2"

\* The number of whole markers in text.
Markers(text) ==
    Cardinality({k \in 1..Len(text) : text[k] = Run(MarkerText, 22)})

\* C10: content longer than maxContentPerPage is emitted as its first
\* maxContentPerPage characters and one marker (24 characters); other
\* content is emitted as it is.
C10_ContentCut ==
    Reported =>
        \A j \in 1..Len(searchResults) :
            (results[j].success /\ results[j].content # << >>) =>
                LET c == results[j].content
                    m == request.maxContentPerPage
                    out == reply.report.sections[j].body.content
                IN /\ reply.report.sections[j].body.kind = "content"
                   /\ TextLength(out) <= m + 24
                   /\ IF TextLength(c) > m
                      THEN /\ TextLength(out) = m + 24
                           /\ Substring0(out, m) = Substring0(c, m)
                           /\ SubSeq(out, Len(out) - 1, Len(out)) =
                                  << Run("\n", 2), Run(MarkerText, 22) >>
                           /\ Markers(out) = 1
                      ELSE out = c

\* C10: content the fetcher had cut at maxLength is cut again for the
\* report, at maxContentPerPage = 50000.
C10_Witness ==
    /\ Reported
    /\ request.maxContentPerPage = 50000
    /\ \E j \in 1..Len(searchResults) :
           /\ results[j].success
           /\ TextLength(results[j].content) = 100024
           /\ reply.report.sections[j].body.content =
                  << Run("w", 50000), Run("\n", 2), Run(MarkerText, 22) >>

----------------------------------------------------------------------------
\* The whitespace-separated tokens of text: its maximal runs of non-blank
\* characters.
Tokens(text) ==
    Cardinality({k \in 1..Len(text) :
                    ~IsBlank(text[k].c) /\ (k = 1 \/ IsBlank(text[k - 1].c))})

\* C11: the wordCount of a successful outcome is the number of
\* whitespace-separated tokens of the text the extractors returned, counted
\* before the cut at maxLength: 0 for the empty text.
C11_WordCountIsTokens ==
    \A k \in Indices :
        (settled[k].status = "fulfilled" /\ settled[k].value.success) =>
            /\ extracted[k].def
            /\ settled[k].value.wordCount = Some(Tokens(extracted[k].v))

----------------------------------------------------------------------------
\* The terms prefix d1, ..., prefix dn of a list, sep between them.
RECURSIVE Terms(_, _, _)
Terms(list, prefix, sep) ==
    IF list = << >> THEN << >>
    ELSE prefix \o Head(list).name \o
         (IF Len(list) > 1 THEN sep \o Terms(Tail(list), prefix, sep) ELSE << >>)

\* The argument arg carries the domains of list: no list is an argument
\* left out or empty.
Carries(arg, list) ==
    IF list = << >>
    THEN arg \in {Undefined, Some(<< >>)}
    ELSE arg = Some(CommaSeparated(list))

\* C12: the query deep_search sends for query q, included domains d1..dn
\* and excluded domains e1..em is q, then (n > 0) a space and the trimmed
\* site:d1 .. site:dn joined by " OR ", then (m > 0) a space and the trimmed
\* -site:e1 .. -site:em joined by single spaces; without domain lists it is q.
C12_QueryBuilt ==
    (request.tool = "deep_search" /\ searchCalls = 1) =>
        \A inc \in DomainLists \cup {<< >>}, exc \in DomainLists \cup {<< >>} :
            (Carries(request.include_domains, inc) /\ Carries(request.exclude_domains, exc)) =>
                searchQuery =
                    request.query
                    \o (IF inc = << >> THEN << >>
                        ELSE << " " >> \o Terms(inc, << "s", "i", "t", "e", ":" >>,
                                                << " ", "O", "R", " " >>))
                    \o (IF exc = << >> THEN << >>
                        ELSE << " " >> \o Terms(exc, << "-", "s", "i", "t", "e", ":" >>,
                                                << " " >>))

\* C12: "cats" with include_domains "a.com,b.com" and exclude_domains "c.com"
\* was sent as "cats site:a.com OR site:b.com -site:c.com".
C12_Witness ==
    /\ searchCalls = 1
    /\ request.query = << "c", "a", "t", "s" >>
    /\ request.include_domains =
           Some(<< "a", ".", "c", "o", "m", ",", "b", ".", "c", "o", "m" >>)
    /\ request.exclude_domains = Some(<< "c", ".", "c", "o", "m" >>)
    /\ searchQuery = << "c", "a", "t", "s", " ", "s", "i", "t", "e", ":", "a", ".", "c",
                        "o", "m", " ", "O", "R", " ", "s", "i", "t", "e", ":", "b", ".",
                        "c", "o", "m", " ", "-", "s", "i", "t", "e", ":", "c", ".", "c",
                        "o", "m" >>

----------------------------------------------------------------------------
\* C13: result pages are downloaded for web and news searches only: while
\* deep_search serves a request with search_type images, fetchAllUrls is
\* not called and no URL has a fetch attempt.
C13_ImagesNotFetched ==
    (request.tool = "deep_search" /\ request.searchType = "images") =>
        /\ faPc = "idle"
        /\ \A k \in Indices : pc[k] = "idle" /\ lastResp[k] = NoResp

----------------------------------------------------------------------------
\* The URLs with a fetch in progress: an attempt in flight, a backoff being
\* waited out, or a body being read.
InProgress == {k \in Indices : pc[k] \in {"fetching", "backoff", "reading"}}

\* C14: at no time do more than concurrency URLs have a fetch in progress.
C14_AtMostConcurrency == Cardinality(InProgress) <= concurrency

\* C14: of 7 URLs fetched 5 at a time, 5 are in progress, one of them
\* waiting in backoff, and the other 2 have not been started.
C14_Witness ==
    /\ Len(urls) = 7
    /\ concurrency = 5
    /\ Cardinality(InProgress) = 5
    /\ \E k \in InProgress : pc[k] = "backoff"
    /\ pc[6] = "idle"
    /\ pc[7] = "idle"

----------------------------------------------------------------------------
\* C15: once started, fetchAllUrls returns, provided every attempt ends and
\* every backoff elapses: it neither waits forever nor loops.
C15_RunsToCompletion == (faPc = "awaiting") ~> (faPc = "returned")

\* C15: fetchAllUrls has returned after more than one window, one URL
\* having succeeded and one having used up its attempts on 503.
C15_Witness ==
    /\ faPc = "returned"
    /\ Len(urls) > concurrency
    /\ \E k \in Indices : results[k].success
    /\ \E k \in Indices : results[k].error = Some(HttpMessage(503))

----------------------------------------------------------------------------
\* The attempts of URL k so far: those that ended and the one in flight.
Attempts(k) == Len(hist[k]) + (IF pc[k] = "fetching" THEN 1 ELSE 0)

\* C16: whatever the attempts end with, a URL gets at most 3 of them, a wait
\* comes only between two attempts (at most 2 waits), and the third attempt
\* is followed by no wait and no attempt.
C16_AttemptsBounded ==
    \A k \in traced \cap Indices :
        /\ Attempts(k) <= 3
        /\ Len(waits[k]) <= 2
        /\ Len(waits[k]) <= Len(hist[k])
        /\ pc[k] \in {"fetching", "backoff"} => Len(waits[k]) = Len(hist[k])
        /\ Len(hist[k]) = 3 => pc[k] \in {"reading", "settled"}

\* C16: three attempts that ended in three ways (500, a network error, 404),
\* two waits, and the URL has failed.
C16_Witness ==
    \E k \in traced \cap Indices :
        /\ hist[k] = << StatusResp(500), ErrorResp(NetworkMessage), StatusResp(404) >>
        /\ Len(waits[k]) = 2
        /\ pc[k] = "settled"
        /\ ~settled[k].value.success

----------------------------------------------------------------------------
\* C17: the report holds one section per search result, in the results'
\* order and numbered from 1; section j is built from the outcome of fetching
\* the link of result j and holds exactly one body: the content when that
\* fetch succeeded, the failure notice with the snippet when it failed.
C17_OneBodyPerSection ==
    Reported =>
        /\ Len(reply.report.sections) = Len(searchResults)
        /\ \A j \in 1..Len(searchResults) :
               LET section == reply.report.sections[j]
               IN /\ section.number = j
                  /\ section.url = searchResults[j].link
                  /\ results[j].url = searchResults[j].link
                  /\ section.body.kind \in {"content", "failure"}
                  /\ section.body.kind = "content" <=> results[j].success
                  /\ section.body.kind = "failure" =>
                         /\ section.body.error = results[j].error.v
                         /\ section.body.snippet = searchResults[j].snippet

----------------------------------------------------------------------------
\* Attempt j of URL k was followed by a wait or by another attempt.
Retried(k, j) ==
    \/ j < Len(hist[k])
    \/ j = Len(hist[k]) /\ pc[k] \in {"backoff", "fetching"}

\* C18: an attempt is followed by a retry only if it was answered 500..599
\* or 429, or failed with an error that is not a timeout; an attempt
\* answered with another non-2xx status (304, 404) is the last.
C18_RetryOnlyIfRetryable ==
    \A k \in traced \cap Indices :
        \A j \in 1..Len(hist[k]) :
            Retried(k, j) =>
                \/ /\ hist[k][j].kind = "status"
                   /\ (hist[k][j].status = 429
                       \/ (hist[k][j].status >= 500 /\ hist[k][j].status <= 599))
                \/ /\ hist[k][j].kind = "error"
                   /\ hist[k][j].message # TimeoutMessage

----------------------------------------------------------------------------
\* Attempt j of URL k was answered 2xx.
Answered2xx(k, j) ==
    /\ hist[k][j].kind = "status"
    /\ hist[k][j].status >= 200
    /\ hist[k][j].status <= 299

\* No trace of failed attempts: the outcome is one that a first attempt
\* answered 2xx gives.
CleanSuccess(k) ==
    /\ settled[k].value.success
    /\ settled[k].value.wordCount.def
    /\ ~settled[k].value.error.def
    /\ \E page \in pages : settled[k].value = FetchUrlSuccess(urls[k], page)

\* C19 as claimed: an attempt answered 2xx is the URL's last, no wait
\* follows it, and the outcome is a success with wordCount, without error
\* and without trace of the failed attempts before it.
C19_SuccessAfter2xx ==
    \A k \in traced \cap Indices :
        \A j \in 1..Len(hist[k]) :
            Answered2xx(k, j) =>
                /\ j = Len(hist[k])
                /\ Len(waits[k]) = j - 1
                /\ pc[k] \in {"reading", "settled"}
                /\ pc[k] = "settled" => CleanSuccess(k)

\* C19, amended: an attempt answered 2xx is the URL's last and no wait
\* follows it; the outcome is the clean success when the body of the
\* response was read, and the failure with the read's error when it was not.
C19_RecoveryByRetry ==
    \A k \in traced \cap Indices :
        \A j \in 1..Len(hist[k]) :
            Answered2xx(k, j) =>
                /\ j = Len(hist[k])
                /\ Len(waits[k]) = j - 1
                /\ pc[k] \in {"reading", "settled"}
                /\ pc[k] = "settled" =>
                       IF lastResp[k].kind = "status"
                       THEN CleanSuccess(k)
                       ELSE /\ lastResp[k].kind = "body-error"
                            /\ ~settled[k].value.success
                            /\ settled[k].value.error = Some(lastResp[k].message)
                            /\ ~settled[k].value.wordCount.def

\* C19: 503, then a network error, then 200 at the third attempt: the
\* outcome is the success a first 200 would have given.
C19_Witness ==
    \E k \in traced \cap Indices :
        /\ hist[k] = << StatusResp(503), ErrorResp(NetworkMessage), StatusResp(200) >>
        /\ waits[k] = << 1000, 2000 >>
        /\ pc[k] = "settled"
        /\ settled[k].value = FetchUrlSuccess(urls[k], Page("T", << Run("w", 3) >>))

=============================================================================
